---- MODULE Spec2Model ----
(***************************************************************************)
(* Order settlement and loyalty accounting of backend/server.py.           *)
(*                                                                         *)
(* The store (db.products, db.users, db.orders) is shared by all requests. *)
(* A create_order request is a coroutine: it runs without interruption     *)
(* between two awaits, and every `await db....` is one atomic storage      *)
(* operation at which other requests may be scheduled.  One action of the  *)
(* model is one storage operation together with the local code that        *)
(* follows it up to the next await.                                        *)
(*                                                                         *)
(* Money is modelled in whole rupees (the seed catalogue has integer       *)
(* prices), so the float arithmetic of the source is integer arithmetic.   *)
(***************************************************************************)
EXTENDS Integers, Sequences, FiniteSets, TLC

(* ---- bounds of the model ---- *)
MaxCartLen == 2       \* lines of one cart
MaxStock == 1         \* largest initial stock of the product on sale
Price == 50           \* its price, in rupees
MaxLimit == 2         \* largest limit asked of the recommendations

(* ---- constants of the program ---- *)
WelcomeBonus == 100
PointsPerRupees == 100
SilverSpend == 10000
GoldSpend == 25000
PlatinumSpend == 50000

\* the two create_order requests that may be in flight together
Requests == {"r1", "r2"}
\* the catalogue: p1 is on sale, p2 is a deactivated product, p3 and p4 are
\* active products that the modelled carts do not order
ProductIds == {"p1", "p2", "p3", "p4"}
UserIds == {"u1"}
None == "None"

Min(a, b) == IF a < b THEN a ELSE b
Max(a, b) == IF a > b THEN a ELSE b

(* ---- pure helpers of the source ---- *)
\* mutant of calculate_loyalty_tier: the thresholds are exclusive
calculate_loyalty_tier_Exclusive(total_spent) ==
    IF total_spent > PlatinumSpend THEN "platinum"
    ELSE IF total_spent > GoldSpend THEN "gold"
    ELSE IF total_spent > SilverSpend THEN "silver"
    ELSE "bronze"

calculate_loyalty_tier(total_spent) ==
    IF total_spent >= PlatinumSpend THEN "platinum"
    ELSE IF total_spent >= GoldSpend THEN "gold"
    ELSE IF total_spent >= SilverSpend THEN "silver"
    ELSE "bronze"

\* int(amount // 100): Python's // floors, as \div does for a positive divisor
calculate_loyalty_points(amount) == amount \div PointsPerRupees

(* ---- inputs ---- *)
\* CartItem: quantity is an unconstrained int; the quantity of a line whose
\* product is not found is never read
CartItem == [product_id : {"p1"}, quantity : {-1, 1, 2}]
              \cup [product_id : {"p2"}, quantity : {1}]
Carts == UNION {[1..n -> CartItem] : n \in 0..MaxCartLen}
\* loyalty_points_to_use is an unconstrained int: negative, none, more than
\* the balance
PointsRequests == {-20, 0, 200}
\* a bearer token: does it verify, and the user_id of its payload
Tokens == {[valid |-> TRUE, user_id |-> "u1"],
           [valid |-> TRUE, user_id |-> "u9"],
           [valid |-> TRUE, user_id |-> None],
           [valid |-> FALSE, user_id |-> None]}

VARIABLES products, users, orders, reviews, req, out, stock0

vars == <<products, users, orders, reviews, req, out, stock0>>

NoUser == [id |-> None, email |-> None, role |-> "user",
           loyalty_points |-> 0, loyalty_tier |-> "bronze",
           total_spent |-> 0]

IdleRequest ==
    [pc |-> "idle", token |-> [valid |-> FALSE, user_id |-> None],
     items |-> <<>>, loyalty_points_to_use |-> 0,
     current_user |-> NoUser, i |-> 0,
     total_amount |-> 0, order_items |-> <<>>,
     discount_amount |-> 0, loyalty_points_used |-> 0,
     loyalty_points_earned |-> 0,
     new_loyalty_points |-> 0, new_total_spent |-> 0, new_tier |-> "bronze",
     order_id |-> 0, status |-> 0, detail |-> None, entity |-> None,
     writes |-> <<>>]

\* The product documents at start.  rating is kept in tenths (the source
\* rounds it to one decimal); a new Product has rating 0.0 and no review;
\* the deactivated p2 kept the rating it had.
Catalogue ==
    [p \in ProductIds |->
       [name |-> IF p = "p1" THEN "n1" ELSE IF p = "p2" THEN "n2"
                 ELSE IF p = "p3" THEN "n3" ELSE "n4",
        category |-> IF p = "p4" THEN "Headphones" ELSE "Smartphones",
        rating |-> IF p = "p2" THEN 45 ELSE IF p = "p1" THEN 0 ELSE 40,
        review_count |-> IF p = "p1" THEN 0 ELSE 2,
        is_active |-> (p # "p2")]]

\* no read-only request has been answered yet
NoResponse == [op |-> None, status |-> 0, user_id |-> None, limit |-> 0,
               body |-> <<>>]

Init ==
    /\ products \in {[p \in ProductIds |->
                        [name |-> Catalogue[p].name,
                         price |-> Price,
                         category |-> Catalogue[p].category,
                         rating |-> Catalogue[p].rating,
                         review_count |-> Catalogue[p].review_count,
                         stock_quantity |-> IF p = "p1" THEN s1 ELSE 1,
                         is_active |-> Catalogue[p].is_active]] :
                      s1 \in 1..MaxStock}
    /\ users = [u \in UserIds |->
                  [id |-> u, email |-> "e1", role |-> "user", loyalty_points |-> WelcomeBonus,
                   loyalty_tier |-> "bronze", total_spent |-> 0]]
    /\ orders = <<>>
    /\ reviews = <<>>
    /\ req = [s \in Requests |-> IdleRequest]
    /\ out = NoResponse
    /\ stock0 = [p \in ProductIds |-> products[p].stock_quantity]

(* POST /api/orders arrives with a bearer token; the dependency
   get_current_user runs before the body reaches create_order. *)
Submit(s) ==
    /\ req[s].pc = "idle"
    /\ \E tok \in Tokens :
         req' = [req EXCEPT ![s].pc = "auth", ![s].token = tok]
    /\ UNCHANGED <<products, users, orders, stock0, reviews, out>>

\* mutant of Respond: the failure is noted but the request is not ended
Respond_NeverEnds(s, status, detail, entity) ==
    [req[s] EXCEPT !.status = status, !.detail = detail, !.entity = entity]

\* the response of a request that ends
Respond(s, status, detail, entity) ==
    [req[s] EXCEPT !.pc = "done", !.status = status, !.detail = detail,
                   !.entity = entity]

\* min(order_data.loyalty_points_to_use, current_user.loyalty_points)
PointsUsed(loyalty_points_to_use, loyalty_points) ==
    Min(loyalty_points_to_use, loyalty_points)

\* discount_amount of the "Apply loyalty points discount" block
DiscountAmount(loyalty_points_used) ==
    IF loyalty_points_used > 0 THEN loyalty_points_used ELSE 0

\* mutant of DiscountedTotal: the total also depends on the orders stored
DiscountedTotal_CountsOrders(total_amount, loyalty_points_used) ==
    IF loyalty_points_used > 0
      THEN Max(0, total_amount - DiscountAmount(loyalty_points_used)) + Len(orders)
      ELSE total_amount + Len(orders)

\* total_amount after the "Apply loyalty points discount" block
DiscountedTotal(total_amount, loyalty_points_used) ==
    IF loyalty_points_used > 0
      THEN Max(0, total_amount - DiscountAmount(loyalty_points_used))
      ELSE total_amount

\* the code between the end of the item loop and the insert of the order
PriceOrder(r) ==
    LET used == PointsUsed(r.loyalty_points_to_use, r.current_user.loyalty_points)
        total == DiscountedTotal(r.total_amount, used)
    IN [r EXCEPT !.pc = "insert_order",
                 !.loyalty_points_used = used,
                 !.discount_amount = DiscountAmount(used),
                 !.total_amount = total,
                 !.loyalty_points_earned = calculate_loyalty_points(total)]

(* get_current_user: decode the token and load the user document; on
   success create_order is entered with the parsed body order_data (an
   empty cart skips the item loop). *)
GetCurrentUser(s) ==
    /\ req[s].pc = "auth"
    /\ LET tok == req[s].token IN
       IF ~tok.valid
         THEN req' = [req EXCEPT ![s] =
                        Respond(s, 401, "Invalid authentication credentials", None)]
       ELSE IF tok.user_id = None
         THEN req' = [req EXCEPT ![s] =
                        Respond(s, 401, "Invalid authentication credentials", None)]
       ELSE IF tok.user_id \notin DOMAIN users
         THEN req' = [req EXCEPT ![s] = Respond(s, 401, "User not found", None)]
       ELSE \E items \in Carts, pts \in PointsRequests :
              LET entered == [req[s] EXCEPT !.pc = "find_product",
                                            !.current_user = users[tok.user_id],
                                            !.items = items,
                                            !.loyalty_points_to_use = pts,
                                            !.i = 1]
              IN req' = [req EXCEPT ![s] = IF items = <<>>
                                             THEN PriceOrder(entered)
                                             ELSE entered]
    /\ UNCHANGED <<products, users, orders, stock0, reviews, out>>

\* mutant of Found: the query forgets the is_active filter
Found_AnyProduct(product_id) == product_id \in DOMAIN products

\* db.products.find_one({"id": product_id, "is_active": True}) returns a document
Found(product_id) ==
    /\ product_id \in DOMAIN products
    /\ products[product_id].is_active

\* mutant of InsufficientStock: the comparison is off by one
InsufficientStock_OffByOne(product, item) ==
    product.stock_quantity + 1 < item.quantity

\* product["stock_quantity"] < item.quantity
InsufficientStock(product, item) == product.stock_quantity < item.quantity

(* One iteration of the item loop: find the active product, check the
   stock, add the line; after the last line, price the order. *)
FindProduct(s) ==
    /\ req[s].pc = "find_product"
    /\ LET r == req[s]
           item == r.items[r.i]
       IN req' = [req EXCEPT ![s] =
            IF ~Found(item.product_id)
              THEN Respond(s, 404, "ProductNotFound", item.product_id)
            ELSE LET product == products[item.product_id]
                     item_total == product.price * item.quantity
                     line == [product_id |-> item.product_id,
                              name |-> product.name,
                              price |-> product.price,
                              quantity |-> item.quantity,
                              total |-> item_total]
                     added == [r EXCEPT !.total_amount = @ + item_total,
                                        !.order_items = Append(@, line),
                                        !.i = @ + 1]
                 IN IF InsufficientStock(product, item)
                      THEN Respond(s, 400, "InsufficientStock", product.name)
                    ELSE IF r.i < Len(r.items) THEN added
                    ELSE PriceOrder(added)]
    /\ UNCHANGED <<products, users, orders, stock0, reviews, out>>

\* Order(...) as built by create_order; the id is fresh
NewOrder(r, id) ==
    [id |-> id, user_id |-> r.current_user.id, items |-> r.order_items,
     total_amount |-> r.total_amount, discount_amount |-> r.discount_amount,
     loyalty_points_used |-> r.loyalty_points_used,
     loyalty_points_earned |-> r.loyalty_points_earned,
     payment_status |-> "pending", order_status |-> "placed"]

\* mutant of NewLoyaltyPoints: the points earned are not credited
NewLoyaltyPoints_NoEarned(r) ==
    r.current_user.loyalty_points - r.loyalty_points_used

\* new_loyalty_points, from the user snapshot
NewLoyaltyPoints(r) ==
    r.current_user.loyalty_points - r.loyalty_points_used
      + r.loyalty_points_earned

\* new_total_spent, from the user snapshot
NewTotalSpent(r) == r.current_user.total_spent + r.total_amount

\* mutant of NewTier: the tier of the spend before this order
NewTier_BeforeOrder(r) == calculate_loyalty_tier(r.current_user.total_spent)

\* new_tier, the tier of new_total_spent
NewTier(r) == calculate_loyalty_tier(NewTotalSpent(r))

\* mutant of ThenUpdateUser: the stock loop comes before the user update
ThenUpdateUser_StockFirst(r) ==
    IF r.items = <<>> THEN [r EXCEPT !.pc = "update_user"]
    ELSE [r EXCEPT !.pc = "update_stock", !.i = 1]

\* after the insert of the order the handler goes on to db.users.update_one
ThenUpdateUser(r) == [r EXCEPT !.pc = "update_user"]

(* db.orders.insert_one, then the new balance from the user snapshot. *)
InsertOrder(s) ==
    /\ req[s].pc = "insert_order"
    /\ LET r == req[s]
           id == Len(orders) + 1
       IN /\ orders' = Append(orders, NewOrder(r, id))
          /\ req' = [req EXCEPT ![s] =
                       [ThenUpdateUser(r) EXCEPT !.order_id = id,
                                 !.writes = Append(@, "order"),
                                 !.new_loyalty_points = NewLoyaltyPoints(r),
                                 !.new_total_spent = NewTotalSpent(r),
                                 !.new_tier = NewTier(r)]]
    /\ UNCHANGED <<products, users, stock0, reviews, out>>

(* db.users.update_one with $set of the three fields; with an empty cart
   the stock loop does nothing and the response is returned. *)
UpdateUser(s) ==
    /\ req[s].pc = "update_user"
    /\ LET r == req[s]
           uid == r.current_user.id
       IN users' = IF uid \in DOMAIN users
                     THEN [users EXCEPT ![uid].loyalty_points = r.new_loyalty_points,
                                        ![uid].total_spent = r.new_total_spent,
                                        ![uid].loyalty_tier = r.new_tier]
                     ELSE users
    /\ req' = [req EXCEPT ![s] =
                 LET w == [req[s] EXCEPT !.writes = Append(@, "user"), !.i = 1] IN
                 IF Len(req[s].items) = 0
                   THEN [w EXCEPT !.pc = "done", !.status = 200,
                                  !.detail = "Order created successfully"]
                   ELSE [w EXCEPT !.pc = "update_stock"]]
    /\ UNCHANGED <<products, orders, stock0, reviews, out>>

\* mutant of NewStock: the stock is floored at zero
NewStock_Floored(stock_quantity, quantity) == Max(0, stock_quantity - quantity)

\* {"$inc": {"stock_quantity": -quantity}}
NewStock(stock_quantity, quantity) == stock_quantity - quantity

(* One iteration of the stock loop: $inc stock_quantity by -quantity;
   after the last one the response is returned. *)
UpdateStock(s) ==
    /\ req[s].pc = "update_stock"
    /\ LET r == req[s]
           item == r.items[r.i]
       IN /\ products' = IF item.product_id \in DOMAIN products
                           THEN [products EXCEPT ![item.product_id].stock_quantity =
                                                     NewStock(@, item.quantity)]
                           ELSE products
          /\ req' = [req EXCEPT ![s] =
                       LET w == [r EXCEPT !.writes = Append(@, "stock")] IN
                       IF r.i < Len(r.items)
                         THEN [w EXCEPT !.i = @ + 1]
                         ELSE [w EXCEPT !.pc = "done", !.status = 200,
                                        !.detail = "Order created successfully"]]
    /\ UNCHANGED <<users, orders, stock0, reviews, out>>

(* An awaited storage call raises: the handler has no try/except, the
   exception ends the request and the call's effect is not applied. *)
StorageFailure(s) ==
    /\ req[s].pc \in {"auth", "find_product", "insert_order", "update_user",
                      "update_stock"}
    /\ req' = [req EXCEPT ![s] = Respond(s, 500, "Transient", None)]
    /\ UNCHANGED <<products, users, orders, stock0, reviews, out>>

Step(s) ==
    \/ GetCurrentUser(s)
    \/ FindProduct(s)
    \/ InsertOrder(s)
    \/ UpdateUser(s)
    \/ UpdateStock(s)

Next == \E s \in Requests : Submit(s) \/ Step(s)

\* requests run concurrently and storage calls succeed
Spec == Init /\ [][Next]_vars

(* Requests run concurrently; the event loop resumes every handler whose
   awaited storage call has completed, so no handler that can take a step
   is left waiting forever. *)
Fairness == \A s \in Requests : WF_vars(Step(s))

SpecLive == Init /\ [][Next]_vars /\ Fairness

\* no request is being handled, apart from s
Quiet(s) == \A t \in Requests \ {s} : req[t].pc \in {"idle", "done"}

\* a request arrives while no other one is in flight
SubmitAlone(s) == Quiet(s) /\ Submit(s)

(* Requests handled one at a time. *)
NextSeq == \E s \in Requests : SubmitAlone(s) \/ Step(s)

SpecSeq == Init /\ [][NextSeq]_vars

(* Requests run concurrently and any awaited storage call may raise. *)
NextFail == \E s \in Requests : Submit(s) \/ Step(s) \/ StorageFailure(s)

SpecFail == Init /\ [][NextFail]_vars

(* A returning customer: 500 points after 49000 rupees spent (gold), and
   the product on sale costs 1000 rupees. *)
InitLoyal ==
    /\ products \in {[p \in ProductIds |->
                        [name |-> Catalogue[p].name,
                         price |-> 1000,
                         category |-> Catalogue[p].category,
                         rating |-> Catalogue[p].rating,
                         review_count |-> Catalogue[p].review_count,
                         stock_quantity |-> IF p = "p1" THEN s1 ELSE 1,
                         is_active |-> Catalogue[p].is_active]] :
                      s1 \in 1..MaxStock}
    /\ users = [u \in UserIds |->
                  [id |-> u, email |-> "e1", role |-> "user", loyalty_points |-> 500,
                   loyalty_tier |-> "gold", total_spent |-> 49000]]
    /\ orders = <<>>
    /\ reviews = <<>>
    /\ req = [s \in Requests |-> IdleRequest]
    /\ out = NoResponse
    /\ stock0 = [p \in ProductIds |-> products[p].stock_quantity]

\* the returning customer's requests, handled one at a time
SpecLoyalSeq == InitLoyal /\ [][NextSeq]_vars

\* the returning customer's requests, run concurrently
SpecLoyal == InitLoyal /\ [][Next]_vars

(* ---- the tier classifier on its own ---- *)
\* spends around every threshold, a negative one and a large one
SpendSamples ==
    {-50, 0, 100000}
      \cup UNION {{t - 1, t, t + 1} : t \in {SilverSpend, GoldSpend, PlatinumSpend}}

\* calculate_loyalty_tier applied to two spends
ClassifyTier ==
    /\ \E a, b \in SpendSamples :
         out' = [op |-> "tier", status |-> 200, user_id |-> None, limit |-> 0,
                 body |-> <<a, calculate_loyalty_tier(a),
                            b, calculate_loyalty_tier(b)>>]
    /\ UNCHANGED <<products, users, orders, reviews, req, stock0>>

SpecTier == Init /\ [][ClassifyTier]_vars

(***************************************************************************)
(* The other handlers.  Each is run to completion and leaves its response  *)
(* in out; ratings are kept in tenths (45 is 4.5).                         *)
(***************************************************************************)
OrdersPageSize == 50      \* to_list(50) of the order queries
ProductsPageSize == 20    \* default limit of get_products
ProductOrder == <<"p1", "p2", "p3", "p4">>     \* insertion order of the products
\* db.categories, seeded at startup and never written again
Categories == <<"Smartphones", "Headphones", "Smartwatches",
                "Chargers & Power Banks">>
Ratings == {4, 5}                              \* ratings given in reviews
ReviewedIds == {"p1", "p2"}                    \* products reviews are posted for
PaidIds == {0, 1}                              \* order ids payments are made for; 0 is no order's

\* the tokens the other handlers are asked with: those of the settlements
\* and an undecodable token that carries the id of a stored user
AskedTokens == Tokens \cup {[valid |-> FALSE, user_id |-> "u1"]}

\* mutant of Authenticated: the signature of the token is not verified
Authenticated_Unverified(tok) ==
    /\ tok.user_id # None
    /\ tok.user_id \in DOMAIN users

\* get_current_user succeeds for this token
Authenticated(tok) ==
    /\ tok.valid
    /\ tok.user_id # None
    /\ tok.user_id \in DOMAIN users

Response(op, status, user_id, limit, body) ==
    [op |-> op, status |-> status, user_id |-> user_id, limit |-> limit,
     body |-> body]

\* the response of a handler that depends on get_current_user, with the
\* token it was asked with
Asked(tok, op, status, user_id, limit, body) ==
    [op |-> op, status |-> status, user_id |-> user_id, limit |-> limit,
     body |-> body, token |-> tok]

\* a Product document as returned to the client
ProductDoc(p) == [id |-> p] @@ products[p]

\* the client reads the response before it sends its next request
ReadResponse ==
    /\ out # NoResponse
    /\ out' = NoResponse
    /\ UNCHANGED <<products, users, orders, reviews, req, stock0>>

RECURSIVE SumRatings(_)
SumRatings(rs) == IF rs = <<>> THEN 0 ELSE Head(rs).rating + SumRatings(Tail(rs))

\* round(sum / n, 1) in tenths, halves to the even digit
RoundTenths(sum, n) ==
    LET q == (10 * sum) \div n
        rem == (10 * sum) % n
    IN IF 2 * rem > n THEN q + 1
       ELSE IF 2 * rem = n THEN q + (q % 2)
       ELSE q

\* mutant of ReviewedProduct: the update also rewrites the stock
ReviewedProduct_TouchesStock(product, rs) ==
    [product EXCEPT !.rating = RoundTenths(SumRatings(rs), Len(rs)),
                    !.review_count = Len(rs),
                    !.stock_quantity = 0]

\* the product after $set of rating and review_count
ReviewedProduct(product, rs) ==
    [product EXCEPT !.rating = RoundTenths(SumRatings(rs), Len(rs)),
                    !.review_count = Len(rs)]

(* create_review: product lookup, one review per user and product, insert,
   then the product's rating and review_count from all of its reviews. *)
CreateReview ==
    /\ \E tok \in AskedTokens, product_id \in ReviewedIds, rating \in Ratings :
         IF ~Authenticated(tok)
           THEN /\ out' = Asked(tok, "create_review", 401, None, 0, <<>>)
                /\ UNCHANGED <<products, reviews>>
         ELSE IF ~Found(product_id)
           THEN /\ out' = Asked(tok, "create_review", 404, tok.user_id, 0, <<>>)
                /\ UNCHANGED <<products, reviews>>
         ELSE IF \E k \in 1..Len(reviews) :
                   /\ reviews[k].product_id = product_id
                   /\ reviews[k].user_id = tok.user_id
           THEN /\ out' = Asked(tok, "create_review", 400, tok.user_id, 0, <<>>)
                /\ UNCHANGED <<products, reviews>>
         ELSE LET stored == Append(reviews, [product_id |-> product_id,
                                             user_id |-> tok.user_id,
                                             rating |-> rating])
                  rs == SelectSeq(stored, LAMBDA r : r.product_id = product_id)
              IN /\ reviews' = stored
                 /\ products' = [products EXCEPT
                                   ![product_id] = ReviewedProduct(@, rs)]
                 /\ out' = Asked(tok, "create_review", 200, tok.user_id, 0, <<>>)
    /\ UNCHANGED <<users, orders, req, stock0>>

\* mutant of MarkPaid: the payment also settles the amount to zero
MarkPaid_ClearsAmount(order) ==
    [order EXCEPT !.payment_status = "completed", !.order_status = "confirmed",
                  !.total_amount = 0]

\* mutant of MarkPaid: the payment leaves the order status as it is
MarkPaid_PaymentOnly(order) ==
    [order EXCEPT !.payment_status = "completed"]

\* the order after $set of payment_status and order_status
MarkPaid(order) ==
    [order EXCEPT !.payment_status = "completed", !.order_status = "confirmed"]

(* simulate_payment: unknown order 404; the payment succeeds or fails at
   random, and only a success writes. *)
SimulatePayment ==
    /\ \E order_id \in PaidIds, success \in BOOLEAN :
         IF order_id \notin DOMAIN orders
           THEN /\ out' = Response("simulate_payment", 404, None, 0, <<>>)
                /\ UNCHANGED orders
         ELSE IF success
           THEN /\ orders' = [orders EXCEPT ![order_id] = MarkPaid(@)]
                /\ out' = Response("simulate_payment", 200, None, 0,
                                   <<order_id, "success">>)
         ELSE /\ out' = Response("simulate_payment", 200, None, 0,
                                 <<order_id, "failed">>)
              /\ UNCHANGED orders
    /\ UNCHANGED <<products, users, reviews, req, stock0>>

Perms(S) ==
    {f \in [1..Cardinality(S) -> S] :
       \A i, j \in 1..Cardinality(S) : i # j => f[i] # f[j]}

\* sort("rating", -1): the documents in any order of non-increasing rating
SortedByRating(ids) ==
    {f \in Perms(ids) :
       \A i \in 1..(Len(f) - 1) : products[f[i]].rating >= products[f[i + 1]].rating}

\* limit(limit).to_list(limit)
Limit(f, limit) == SubSeq(f, 1, Min(limit, Len(f)))

\* mutant of ActiveProducts: the query forgets the is_active filter
ActiveProducts_All == DOMAIN products

\* db.products.find({"is_active": True})
ActiveProducts == {p \in DOMAIN products : products[p].is_active}

\* mutant of InCategories: the query forgets the category filter
InCategories_Any(categories) == ActiveProducts

\* db.products.find({"is_active": True, "category": {"$in": categories}})
InCategories(categories) ==
    {p \in ActiveProducts : products[p].category \in categories}

\* db.orders.find({"user_id": user_id})
OrdersOf(user_id) == SelectSeq(orders, LAMBDA o : o.user_id = user_id)

\* purchased_categories: the category of every line item whose product exists
PurchasedCategories(os) ==
    UNION {{products[os[k].items[j].product_id].category :
              j \in {n \in 1..Len(os[k].items) :
                       os[k].items[n].product_id \in DOMAIN products}} :
           k \in 1..Len(os)}

\* the products the recommendation query ranges over
Recommendable(user_id) ==
    LET os == SubSeq(OrdersOf(user_id), 1,
                     Min(OrdersPageSize, Len(OrdersOf(user_id))))
    IN IF os = <<>> THEN ActiveProducts
       ELSE IF PurchasedCategories(os) # {}
         THEN InCategories(PurchasedCategories(os))
       ELSE ActiveProducts

(* get_recommendations *)
GetRecommendations ==
    /\ \E tok \in AskedTokens, limit \in 1..MaxLimit :
         IF ~Authenticated(tok)
           THEN out' = Asked(tok, "recommendations", 401, None, limit, <<>>)
           ELSE \E f \in SortedByRating(Recommendable(tok.user_id)) :
                  out' = Asked(tok, "recommendations", 200, tok.user_id, limit,
                                  [k \in 1..Len(Limit(f, limit)) |->
                                     ProductDoc(Limit(f, limit)[k])])
    /\ UNCHANGED <<products, users, orders, reviews, req, stock0>>

(* get_loyalty_status *)
GetLoyaltyStatus ==
    /\ \E tok \in AskedTokens :
         IF ~Authenticated(tok)
           THEN out' = Asked(tok, "loyalty_status", 401, None, 0, <<>>)
           ELSE out' = Asked(tok, "loyalty_status", 200, tok.user_id, 0,
                                <<[points |-> users[tok.user_id].loyalty_points,
                                   tier |-> users[tok.user_id].loyalty_tier,
                                   total_spent |-> users[tok.user_id].total_spent]>>)
    /\ UNCHANGED <<products, users, orders, reviews, req, stock0>>

(* get_user_orders: newest first, at most 50 *)
GetUserOrders ==
    /\ \E tok \in AskedTokens :
         IF ~Authenticated(tok)
           THEN out' = Asked(tok, "user_orders", 401, None, 0, <<>>)
           ELSE LET os == OrdersOf(tok.user_id)
                    n == Min(OrdersPageSize, Len(os))
                IN out' = Asked(tok, "user_orders", 200, tok.user_id, 0,
                                   [k \in 1..n |-> os[Len(os) + 1 - k]])
    /\ UNCHANGED <<products, users, orders, reviews, req, stock0>>

(* get_products, with the default limit *)
GetProducts ==
    /\ \E category \in {None, "Headphones"} :
         LET match == SelectSeq(ProductOrder,
                                LAMBDA p : /\ products[p].is_active
                                           /\ (category # None =>
                                                 products[p].category = category))
             page == Limit(match, ProductsPageSize)
         IN out' = Response("products", 200, None, ProductsPageSize,
                            [k \in 1..Len(page) |-> ProductDoc(page[k])])
    /\ UNCHANGED <<products, users, orders, reviews, req, stock0>>

(* get_product *)
GetProduct ==
    /\ \E product_id \in ReviewedIds :
         IF Found(product_id)
           THEN out' = Response("product", 200, None, 0, <<ProductDoc(product_id)>>)
           ELSE out' = Response("product", 404, None, 0, <<>>)
    /\ UNCHANGED <<products, users, orders, reviews, req, stock0>>

(* get_categories *)
GetCategories ==
    /\ out' = Response("categories", 200, None, 0, Categories)
    /\ UNCHANGED <<products, users, orders, reviews, req, stock0>>

\* the client sends r1, then r2, each once the one before has been read
ClientReady(s) ==
    \/ s = "r1" /\ req["r2"].pc = "idle"
    \/ s = "r2" /\ req["r1"].pc = "read"

\* the client reads the response to its settlement
ReadOrderResponse(s) ==
    /\ req[s].pc = "done"
    /\ req' = [req EXCEPT ![s] = [IdleRequest EXCEPT !.pc = "read"]]
    /\ UNCHANGED <<products, users, orders, reviews, out, stock0>>

(* create_product: only an admin may insert a product; its id is a new
   uuid4. *)
CreateProduct ==
    /\ \E tok \in AskedTokens :
         IF ~Authenticated(tok)
           THEN /\ out' = Asked(tok, "create_product", 401, None, 0, <<>>)
                /\ UNCHANGED products
         ELSE IF users[tok.user_id].role # "admin"
           THEN /\ out' = Asked(tok, "create_product", 403, tok.user_id, 0, <<>>)
                /\ UNCHANGED products
         ELSE /\ products' =
                   [p \in DOMAIN products \cup {"p5"} |->
                      IF p \in DOMAIN products THEN products[p]
                      ELSE [name |-> "n5", price |-> Price,
                            category |-> "Headphones", rating |-> 0,
                            review_count |-> 0, stock_quantity |-> 0,
                            is_active |-> TRUE]]
              /\ out' = Asked(tok, "create_product", 200, tok.user_id, 0, <<"p5">>)
    /\ UNCHANGED <<users, orders, reviews, req, stock0>>

\* the client has read every response and has no settlement under way
ClientIdle ==
    /\ out = NoResponse
    /\ \A s \in Requests : req[s].pc \in {"idle", "read"}

(* One client: it sends a request once it has read the response to the one
   before; its settlements go through the steps of create_order. *)
NextShop ==
    \/ ClientIdle /\ CreateReview
    \/ ClientIdle /\ SimulatePayment
    \/ ClientIdle /\ GetRecommendations
    \/ ClientIdle /\ GetLoyaltyStatus
    \/ ClientIdle /\ GetUserOrders
    \/ ClientIdle /\ GetProducts
    \/ ClientIdle /\ GetProduct
    \/ ClientIdle /\ GetCategories
    \/ ClientIdle /\ CreateProduct
    \/ \E s \in Requests : out = NoResponse /\ ClientReady(s) /\ Submit(s)
    \/ \E s \in Requests : Step(s)
    \/ \E s \in Requests : ReadOrderResponse(s)
    \/ ReadResponse

SpecShop == Init /\ [][NextShop]_vars

(***************************************************************************)
(* Registration.  register_user looks the email up, then inserts the new   *)
(* user; the two awaited calls are two steps, so registrations interleave. *)
(***************************************************************************)
Emails == {"e1", "e2", "e3"}                  \* e1 is the email of u1
RegisteredId == [r1 |-> "u2", r2 |-> "u3"]    \* the uuid4 each new User draws

\* db.users.find_one({"email": email}) returns a document
EmailTaken(email) == \E u \in DOMAIN users : users[u].email = email

\* mutant of NewUser: the welcome bonus is not granted
NewUser_NoBonus(id, email) ==
    [id |-> id, email |-> email, role |-> "user", loyalty_points |-> 0,
     loyalty_tier |-> "bronze", total_spent |-> 0]

\* User(email=..., loyalty_points=100), the other fields at their defaults
NewUser(id, email) ==
    [id |-> id, email |-> email, role |-> "user",
     loyalty_points |-> WelcomeBonus, loyalty_tier |-> "bronze",
     total_spent |-> 0]

\* POST /auth/register arrives
SubmitRegister(s) ==
    /\ req[s].pc = "idle"
    /\ req' = [req EXCEPT ![s].pc = "register"]
    /\ UNCHANGED <<products, users, orders, stock0, reviews, out>>

(* The lookup of user_data.email: an existing user ends the request with
   400, else the User object is built. *)
FindUserByEmail(s) ==
    /\ req[s].pc = "register"
    /\ \E email \in Emails :
         req' = [req EXCEPT ![s] =
                   IF EmailTaken(email)
                     THEN Respond(s, 400, "User already exists", email)
                     ELSE [req[s] EXCEPT
                             !.pc = "insert_user",
                             !.current_user = NewUser(RegisteredId[s], email)]]
    /\ UNCHANGED <<products, users, orders, stock0, reviews, out>>

(* db.users.insert_one, then the response built from the User object. *)
InsertUser(s) ==
    /\ req[s].pc = "insert_user"
    /\ LET user == req[s].current_user IN
       /\ users' = [u \in DOMAIN users \cup {user.id} |->
                      IF u = user.id THEN user ELSE users[u]]
       /\ req' = [req EXCEPT ![s] =
                    [Respond(s, 200, "User created successfully", user.email)
                       EXCEPT !.writes = Append(@, "user"),
                              !.new_loyalty_points = user.loyalty_points,
                              !.new_tier = user.loyalty_tier]]
    /\ UNCHANGED <<products, orders, stock0, reviews, out>>

(* login_user: the first user found with the email, and its password
   verified or not; the response reports the stored points and tier. *)
LoginUser ==
    /\ \E email \in Emails, verified \in BOOLEAN :
         IF ~EmailTaken(email) \/ ~verified
           THEN out' = Response("login", 401, None, 0, <<>>)
           ELSE \E u \in DOMAIN users :
                  /\ users[u].email = email
                  /\ out' = Response("login", 200, u, 0,
                                     <<[points |-> users[u].loyalty_points,
                                        tier |-> users[u].loyalty_tier]>>)
    /\ UNCHANGED <<products, users, orders, reviews, req, stock0>>

NextRegister ==
    \/ \E s \in Requests : SubmitRegister(s)
    \/ \E s \in Requests : FindUserByEmail(s)
    \/ \E s \in Requests : InsertUser(s)
    \/ LoginUser

SpecRegister == Init /\ [][NextRegister]_vars

(***************************************************************************)
(* Properties.  stock0 is a history variable: the stock of every product   *)
(* in the initial state; req[s].writes is the log of the writes s applied. *)
(***************************************************************************)
Ended(s) == req[s].pc = "done"
Succeeded(s) == Ended(s) /\ req[s].status = 200
OneLine(s, p, q) ==
    /\ req[s].pc \notin {"idle", "auth"}
    /\ req[s].items = <<[product_id |-> p, quantity |-> q]>>

\* the two requests race for the last unit of p1
RaceCase ==
    /\ stock0["p1"] = 1
    /\ \A s \in Requests : OneLine(s, "p1", 1)

\* C1: two concurrent settlements of quantity 1 against stock 1: the stock
\* never goes below 0 and, once both have ended, exactly one has succeeded
\* and the other one has failed with InsufficientStock or Conflict.
C1_OneWinner ==
    RaceCase =>
      /\ products["p1"].stock_quantity >= 0
      /\ (\A s \in Requests : Ended(s)) =>
           \E s \in Requests :
             /\ Succeeded(s)
             /\ \A t \in Requests \ {s} :
                  \/ req[t].status = 400 /\ req[t].detail = "InsufficientStock"
                  \/ req[t].status = 409

\* C2: settlements run one at a time never leave a product with a negative
\* stock, also when a cart names the same product on several lines.
C2_StockNonNegative ==
    \A p \in DOMAIN products : products[p].stock_quantity >= 0

\* earned minus used points, summed over the orders of user u
RECURSIVE PointsDelta(_, _)
PointsDelta(os, u) ==
    IF os = <<>> THEN 0
    ELSE (IF Head(os).user_id = u
            THEN Head(os).loyalty_points_earned - Head(os).loyalty_points_used
            ELSE 0) + PointsDelta(Tail(os), u)

AllFinished == \A s \in Requests : req[s].pc \in {"idle", "done"}

\* C3: once all settlements of a user have finished, the stored balance is
\* the starting balance minus the points used plus the points earned over
\* all of the user's committed orders.
C3_BalanceMatchesOrders ==
    AllFinished =>
      \A u \in DOMAIN users :
        users[u].loyalty_points = WelcomeBonus + PointsDelta(orders, u)

\* the writes of a complete settlement: the order, the user, every line's stock
AllWritten(s) ==
    /\ Len(SelectSeq(req[s].writes, LAMBDA w : w = "order")) = 1
    /\ Len(SelectSeq(req[s].writes, LAMBDA w : w = "user")) = 1
    /\ Len(SelectSeq(req[s].writes, LAMBDA w : w = "stock")) = Len(req[s].items)

\* C4: a settlement that has ended, also one cut off by a storage failure,
\* has applied all of its writes (order, stock of every line, user) or none.
C4_AllOrNothing ==
    \A s \in Requests : Ended(s) => (req[s].writes = <<>> \/ AllWritten(s))

(* ---- validation failures (C5, C6), for settlements run one at a time ---- *)
\* a line that asks for more than the current stock of an active product
OverStockLine(item) ==
    /\ item.product_id \in DOMAIN products
    /\ products[item.product_id].is_active
    /\ item.quantity > products[item.product_id].stock_quantity

\* a line whose product id is unknown or names an inactive product
NotFoundLine(item) ==
    \/ item.product_id \notin DOMAIN products
    \/ ~products[item.product_id].is_active

HasOverStockLine(items) == \E k \in 1..Len(items) : OverStockLine(items[k])
HasNotFoundLine(items) == \E k \in 1..Len(items) : NotFoundLine(items[k])

\* the position of the first line of the cart that is not valid
FirstInvalid(items) ==
    CHOOSE k \in 1..Len(items) :
      /\ OverStockLine(items[k]) \/ NotFoundLine(items[k])
      /\ \A j \in 1..(k - 1) : ~(OverStockLine(items[j]) \/ NotFoundLine(items[j]))

\* this step is the one in which s leaves the item loop
LeavesItemLoop(s) == req[s].pc = "find_product" /\ req'[s].pc # "find_product"

\* s has ended in this step without any write, its own or another's
RejectedUntouched(s) ==
    /\ req'[s].pc = "done"
    /\ req'[s].writes = <<>>
    /\ req'[s].order_id = 0
    /\ products' = products /\ users' = users /\ orders' = orders

\* the failure the first invalid line of the cart produces
FailsAtFirstInvalid(s) ==
    LET item == req[s].items[FirstInvalid(req[s].items)] IN
    IF NotFoundLine(item)
      THEN /\ req'[s].status = 404
           /\ req'[s].detail = "ProductNotFound"
           /\ req'[s].entity = item.product_id
      ELSE /\ req'[s].status = 400
           /\ req'[s].detail = "InsufficientStock"
           /\ req'[s].entity = products[item.product_id].name

\* C5 as stated: a cart with a line over the current stock is answered with
\* InsufficientStock naming the product of such a line, and nothing changes,
\* whatever the position of the line.
C5_AlwaysInsufficientStock ==
    [][\A s \in Requests :
         (LeavesItemLoop(s) /\ HasOverStockLine(req[s].items)) =>
           /\ RejectedUntouched(s)
           /\ req'[s].status = 400
           /\ req'[s].detail = "InsufficientStock"
           /\ \E k \in 1..Len(req[s].items) :
                /\ OverStockLine(req[s].items[k])
                /\ req'[s].entity = products[req[s].items[k].product_id].name]_vars

\* C5 amended: a cart with a line over the current stock is rejected with no
\* order and no change of stock or user; the failure is that of the first
\* invalid line: InsufficientStock naming its product if that line is over
\* the stock, ProductNotFound if an unknown or inactive product comes first.
C5_RejectedAtFirstInvalidLine ==
    [][\A s \in Requests :
         (LeavesItemLoop(s) /\ HasOverStockLine(req[s].items)) =>
           RejectedUntouched(s) /\ FailsAtFirstInvalid(s)]_vars

\* witness of C5: a request rejected for the stock of its second line
C5_Witness ==
    \E s \in Requests :
      /\ Ended(s) /\ req[s].status = 400 /\ req[s].detail = "InsufficientStock"
      /\ Len(req[s].items) = 2 /\ req[s].i = 2
      /\ req[s].items[2].quantity > products[req[s].items[2].product_id].stock_quantity
      /\ req[s].entity = "n1"
      /\ req[s].writes = <<>>

\* C6 as stated: a cart with a line whose product is unknown or inactive is
\* answered with ProductNotFound for that product id, and nothing changes.
C6_AlwaysProductNotFound ==
    [][\A s \in Requests :
         (LeavesItemLoop(s) /\ HasNotFoundLine(req[s].items)) =>
           /\ RejectedUntouched(s)
           /\ req'[s].status = 404
           /\ req'[s].detail = "ProductNotFound"
           /\ \E k \in 1..Len(req[s].items) :
                /\ NotFoundLine(req[s].items[k])
                /\ req'[s].entity = req[s].items[k].product_id]_vars

\* C6 amended: a cart with a line whose product is unknown or inactive is
\* rejected with no order and no change of stock or user; the failure is
\* that of the first invalid line: ProductNotFound for its product id if that
\* line is the unknown or inactive one, InsufficientStock if a line over the
\* stock comes first.
C6_RejectedAtFirstInvalidLine ==
    [][\A s \in Requests :
         (LeavesItemLoop(s) /\ HasNotFoundLine(req[s].items)) =>
           RejectedUntouched(s) /\ FailsAtFirstInvalid(s)]_vars

\* witness of C6: a request rejected for its second line, the first one valid
C6_Witness ==
    \E s \in Requests :
      /\ Ended(s) /\ req[s].status = 404 /\ req[s].detail = "ProductNotFound"
      /\ Len(req[s].items) = 2 /\ req[s].i = 2
      /\ req[s].items[1].product_id = "p1"
      /\ req[s].entity = "p2" /\ ~products["p2"].is_active
      /\ req[s].writes = <<>>

(* ---- pricing of the orders (C7, C8, C9, C10) ---- *)
RECURSIVE SumLineTotals(_)
SumLineTotals(lines) ==
    IF lines = <<>> THEN 0 ELSE Head(lines).total + SumLineTotals(Tail(lines))

\* C7: every order has totalAmount = max(0, sum of line totals - discountAmount),
\* every line total is unit price times quantity, and discountAmount is
\* loyaltyPointsUsed.
C7_TotalAndDiscount ==
    \A n \in 1..Len(orders) :
      LET o == orders[n] IN
      /\ \A k \in 1..Len(o.items) :
           o.items[k].total = o.items[k].price * o.items[k].quantity
      /\ o.total_amount = Max(0, SumLineTotals(o.items) - o.discount_amount)
      /\ o.discount_amount = o.loyalty_points_used

\* C8: the points a settlement redeems are min(max(0, requested), balance);
\* a negative request redeems nothing, records 0 points used and leaves the
\* new balance at most the old balance plus the points earned.
C8_RedeemedPointsClamped ==
    \A s \in Requests :
      req[s].order_id # 0 =>
        LET o == orders[req[s].order_id]
            requested == req[s].loyalty_points_to_use
            balance == req[s].current_user.loyalty_points
        IN /\ o.loyalty_points_used = Min(Max(0, requested), balance)
           /\ requested < 0 =>
                /\ o.loyalty_points_used = 0
                /\ req[s].new_loyalty_points <= balance + o.loyalty_points_earned

\* C9: when a settlement writes the user's new balance, the points it used
\* are at most the balance stored at that moment.
C9_UsedWithinStoredBalance ==
    [][\A s \in Requests :
         (req[s].pc = "update_user" /\ req'[s].pc = "update_stock") =>
           req[s].loyalty_points_used
             <= users[req[s].current_user.id].loyalty_points]_vars

\* C10: every order earns floor(totalAmount / 100) points, counted on the
\* total after the discount, and earns 0 when totalAmount is below 100.
C10_PointsEarned ==
    \A n \in 1..Len(orders) :
      LET o == orders[n] IN
      /\ 100 * o.loyalty_points_earned <= o.total_amount
      /\ o.total_amount < 100 * (o.loyalty_points_earned + 1)
      /\ o.total_amount < 100 => o.loyalty_points_earned = 0

(* ---- the user update of a settlement (C11) ---- *)
\* C11: a settlement that runs without interleaving stores
\* totalSpent = old totalSpent + total and loyaltyPoints = old points - points
\* redeemed + points earned; the balance and tier it returns are the stored
\* ones; a user with 500 points redeeming 200 against a subtotal of 1000 gets
\* total 800, 8 points earned and the new balance 308.
C11_UserUpdate ==
    [][\A s \in Requests :
         /\ (req[s].pc = "update_user" /\ req'[s].pc # "update_user") =>
              LET o == orders[req[s].order_id]
                  old == users[o.user_id]
                  new == users'[o.user_id]
              IN /\ new.total_spent = old.total_spent + o.total_amount
                 /\ new.loyalty_points =
                      old.loyalty_points - o.loyalty_points_used
                        + o.loyalty_points_earned
                 /\ (/\ old.loyalty_points = 500
                     /\ req[s].loyalty_points_to_use = 200
                     /\ SumLineTotals(o.items) = 1000) =>
                      /\ o.total_amount = 800
                      /\ o.loyalty_points_earned = 8
                      /\ new.loyalty_points = 308
         /\ (req[s].pc # "done" /\ req'[s].pc = "done" /\ req'[s].status = 200) =>
              LET stored == users'[req[s].current_user.id] IN
              /\ req'[s].new_loyalty_points = stored.loyalty_points
              /\ req'[s].new_total_spent = stored.total_spent
              /\ req'[s].new_tier = stored.loyalty_tier]_vars

\* witness of C11: the 500-point user has redeemed 200 points against a
\* subtotal of 1000 and the settlement has returned
C11_Witness ==
    \E s \in Requests :
      /\ Succeeded(s)
      /\ req[s].current_user.loyalty_points = 500
      /\ req[s].loyalty_points_to_use = 200
      /\ SumLineTotals(req[s].order_items) = 1000
      /\ req[s].total_amount = 800
      /\ users[req[s].current_user.id].loyalty_points = 308

(* ---- the tier classifier (C12) ---- *)
TierRank(tier) ==
    IF tier = "bronze" THEN 0 ELSE IF tier = "silver" THEN 1
    ELSE IF tier = "gold" THEN 2 ELSE IF tier = "platinum" THEN 3 ELSE -1

\* the tier the specification gives to a spend
SpecifiedTier(spend) ==
    IF spend >= 50000 THEN "platinum"
    ELSE IF spend >= 25000 THEN "gold"
    ELSE IF spend >= 10000 THEN "silver"
    ELSE "bronze"

\* C12: the classifier maps spend >= 50000 to platinum, else >= 25000 to gold,
\* else >= 10000 to silver, else bronze, with inclusive lower bounds (9999
\* bronze, 10000 silver, 24999 silver, 25000 gold, 49999 gold, 50000
\* platinum), and a larger spend never yields a lower tier.
C12_TierClassifier ==
    out.op = "tier" =>
      LET a == out.body[1]  ta == out.body[2]
          b == out.body[3]  tb == out.body[4]
      IN /\ ta = SpecifiedTier(a)
         /\ a = 9999 => ta = "bronze"
         /\ a = 10000 => ta = "silver"
         /\ a = 24999 => ta = "silver"
         /\ a = 25000 => ta = "gold"
         /\ a = 49999 => ta = "gold"
         /\ a = 50000 => ta = "platinum"
         /\ a <= b => TierRank(ta) <= TierRank(tb)

\* witness of C12: the classifier has been applied on both sides of the
\* platinum threshold
C12_Witness ==
    /\ out.op = "tier"
    /\ out.body = <<49999, "gold", 50000, "platinum">>

(* ---- monotonic spend, non-negative balances (C13, C15) ---- *)
\* C13: a user's stored total_spent never decreases: every step, in every
\* sequence and interleaving of settlements, leaves it greater than or equal
\* to the value stored just before.
C13_TotalSpentNeverDecreases ==
    [][\A u \in DOMAIN users : users'[u].total_spent >= users[u].total_spent]_vars

\* C15: in every reachable state every user's loyalty_points and total_spent
\* are non-negative, whatever points were requested and whatever the carts.
C15_BalancesNonNegative ==
    \A u \in DOMAIN users :
      /\ users[u].loyalty_points >= 0
      /\ users[u].total_spent >= 0

(* ---- invalid quantities (C16) ---- *)
HasInvalidQuantity(items) == \E k \in 1..Len(items) : items[k].quantity <= 0

\* C16: a settlement whose cart has a line of zero or negative quantity is
\* rejected and changes no state: it creates no order, writes no stock and
\* no user, and ends with a 4xx failure.
C16_InvalidQuantityRejected ==
    \A s \in Requests :
      (req[s].pc \notin {"idle", "auth"} /\ HasInvalidQuantity(req[s].items)) =>
        /\ req[s].writes = <<>>
        /\ req[s].order_id = 0
        /\ products = [p \in DOMAIN products |->
                         [products[p] EXCEPT !.stock_quantity = stock0[p]]]
        /\ Ended(s) => req[s].status \in {400, 404}

(* ---- stored tier (C14) ---- *)
\* C14: in every reachable state, through any interleaving of settlements,
\* every user's stored loyalty_tier is the tier the classifier gives to the
\* user's stored total_spent.
C14_TierMatchesTotalSpent ==
    \A u \in DOMAIN users :
      users[u].loyalty_tier = SpecifiedTier(users[u].total_spent)

\* witness of C14: a settlement has taken a gold user over the platinum
\* threshold, and another one of the same user has been running
C14_Witness ==
    /\ \E s \in Requests :
         /\ Succeeded(s)
         /\ req[s].current_user.loyalty_tier = "gold"
         /\ users[req[s].current_user.id].total_spent >= 50000
         /\ users[req[s].current_user.id].loyalty_tier = "platinum"
    /\ \A s \in Requests : req[s].pc # "idle"

(* ---- orders once created (C17) ---- *)
\* C17: every step, whatever the operation (a later settlement, a review
\* that rewrites a product's rating, a payment simulation), leaves every
\* stored order's line items, total_amount, discount_amount,
\* loyalty_points_used and loyalty_points_earned as they were; only
\* payment_status and order_status may change.
C17_OrderContentImmutable ==
    [][\A k \in 1..Len(orders) :
         /\ k <= Len(orders')
         /\ orders'[k].items = orders[k].items
         /\ orders'[k].total_amount = orders[k].total_amount
         /\ orders'[k].discount_amount = orders[k].discount_amount
         /\ orders'[k].loyalty_points_used = orders[k].loyalty_points_used
         /\ orders'[k].loyalty_points_earned = orders[k].loyalty_points_earned]_vars

\* witness of C17: an order of p1 has been paid, p1 has been reviewed and a
\* later settlement has stored a second order
C17_Witness ==
    /\ Len(orders) = 2
    /\ orders[1].payment_status = "completed"
    /\ orders[1].order_status = "confirmed"
    /\ \E j \in 1..Len(orders[1].items) : orders[1].items[j].product_id = "p1"
    /\ products["p1"].review_count = 1

(* ---- recommendations (C18, C19) ---- *)
Recommended == out.op = "recommendations" /\ out.status = 200

\* the answer lists distinct active products, at most limit of them, in
\* non-increasing order of rating
WellFormedAnswer ==
    /\ Len(out.body) <= out.limit
    /\ \A k \in 1..Len(out.body) :
         /\ out.body[k].is_active
         /\ out.body[k] = [id |-> out.body[k].id] @@ products[out.body[k].id]
    /\ \A j, k \in 1..Len(out.body) : j # k => out.body[j].id # out.body[k].id
    /\ \A k \in 1..(Len(out.body) - 1) :
         out.body[k].rating >= out.body[k + 1].rating

\* the answer is the limit best rated active products: a product is left
\* out only of a full answer, and is rated no higher than any one in it
TopRatedAnswer ==
    \A p \in DOMAIN products :
      (/\ products[p].is_active
       /\ \A k \in 1..Len(out.body) : out.body[k].id # p) =>
        /\ Len(out.body) = out.limit
        /\ \A k \in 1..Len(out.body) : products[p].rating <= out.body[k].rating

HasOrders(user_id) == \E k \in 1..Len(orders) : orders[k].user_id = user_id

\* C18: for a user without orders the recommendations are active products
\* only, at most limit, in non-increasing order of rating, and they are the
\* limit highest rated active products.
C18_NewUserTopRated ==
    (Recommended /\ ~HasOrders(out.user_id)) =>
      /\ WellFormedAnswer
      /\ TopRatedAnswer

\* witness of C18: a user without orders asks for two products after p1
\* has been rated 5.0; the inactive p2 (4.5) and one of the products rated
\* 4.0 are left out
C18_Witness ==
    /\ Recommended /\ ~HasOrders(out.user_id)
    /\ out.limit = 2 /\ Len(out.body) = 2
    /\ out.body[1].id = "p1" /\ out.body[1].rating = 50
    /\ out.body[2].rating = 40

\* the categories of the products of the user's past line items
LineItemCategories(user_id) ==
    {products[p].category :
       p \in {q \in DOMAIN products :
                \E k \in 1..Len(orders) :
                  /\ orders[k].user_id = user_id
                  /\ \E j \in 1..Len(orders[k].items) :
                       orders[k].items[j].product_id = q}}

\* C19: for a user with at least one order the recommendations are at most
\* limit active products in non-increasing order of rating, each of a
\* category found among the products of the user's past line items; when
\* no category can be derived the answer is the one for an empty history.
C19_HistoryCategories ==
    (Recommended /\ HasOrders(out.user_id)) =>
      /\ WellFormedAnswer
      /\ LineItemCategories(out.user_id) # {} =>
           \A k \in 1..Len(out.body) :
             out.body[k].category \in LineItemCategories(out.user_id)
      /\ LineItemCategories(out.user_id) = {} => TopRatedAnswer

\* witness of C19: a user who bought a smartphone is recommended the two
\* active smartphones, not the headphones that are rated higher than p1
C19_Witness ==
    /\ Recommended /\ HasOrders(out.user_id)
    /\ LineItemCategories(out.user_id) = {"Smartphones"}
    /\ out.limit = 2 /\ Len(out.body) = 2
    /\ out.body[1].id = "p3" /\ out.body[2].id = "p1"
    /\ products["p4"].rating > out.body[2].rating

\* the empty-history answer to a user whose only order has no line
C19_FallbackReached ==
    /\ Recommended /\ HasOrders(out.user_id)
    /\ LineItemCategories(out.user_id) = {}
    /\ Len(out.body) = 2
    /\ \E k \in 1..2 : out.body[k].category = "Headphones"

(* ---- who writes what (C20) ---- *)
ReadOps == {"recommendations", "loyalty_status", "user_orders", "products",
            "product", "categories"}

\* C20: a step that answers a read-only operation leaves products, users
\* and orders unchanged; a product's stock changes only in the stock step
\* of a settlement, and a user's points, total_spent and tier only in the
\* user step of a settlement.
C20_ReadOnlyAndWriters ==
    [][/\ (out' # out /\ out'.op \in ReadOps) =>
            /\ products' = products
            /\ users' = users
            /\ orders' = orders
       /\ \A p \in DOMAIN products :
            products'[p].stock_quantity # products[p].stock_quantity =>
              \E s \in Requests :
                /\ req[s].pc = "update_stock"
                /\ req'[s].writes = Append(req[s].writes, "stock")
       /\ \A u \in DOMAIN users :
            users'[u] # users[u] =>
              \E s \in Requests :
                /\ req[s].pc = "update_user"
                /\ req'[s].writes = Append(req[s].writes, "user")]_vars

\* witness of C20: a read-only operation is answered after a settlement
\* has changed stock and user, a review has been stored and an order paid
C20_Witness ==
    /\ out.op \in ReadOps /\ out.status = 200
    /\ products["p1"].stock_quantity # stock0["p1"]
    /\ users["u1"].total_spent # 0
    /\ Len(reviews) > 0
    /\ \E k \in 1..Len(orders) : orders[k].payment_status = "completed"

(* ---- registration (C21) ---- *)
\* the email a registration asks for, once its lookup has been made
RegisteredEmail(r) == IF r.pc = "done" THEN r.entity ELSE r.current_user.email

\* C21: a registration of an email that has a user when it is looked up
\* is rejected (400) and leaves the users as they are; a successful
\* registration stores one new user with 100 points, tier bronze and
\* total_spent 0, and its response reports the stored points and tier.
C21_Registration ==
    [][\A s \in Requests :
         /\ (req[s].pc = "register" /\ req'[s].pc # "register"
               /\ EmailTaken(RegisteredEmail(req'[s]))) =>
              /\ req'[s].pc = "done" /\ req'[s].status = 400
              /\ users' = users
         /\ (req[s].pc = "insert_user" /\ req'[s].pc # "insert_user") =>
              LET id == req[s].current_user.id IN
              /\ req'[s].pc = "done" /\ req'[s].status = 200
              /\ id \notin DOMAIN users
              /\ DOMAIN users' = DOMAIN users \cup {id}
              /\ \A u \in DOMAIN users : users'[u] = users[u]
              /\ users'[id].loyalty_points = 100
              /\ users'[id].loyalty_tier = "bronze"
              /\ users'[id].total_spent = 0
              /\ req'[s].new_loyalty_points = users'[id].loyalty_points
              /\ req'[s].new_tier = users'[id].loyalty_tier]_vars

\* witness of C21: one registration has created a user, the other one,
\* of the email of an existing user, has been rejected
C21_Witness ==
    /\ \E s \in Requests :
         /\ req[s].pc = "done" /\ req[s].status = 200
         /\ req[s].current_user.id \in DOMAIN users
         /\ users[req[s].current_user.id].loyalty_points = 100
    /\ \E s \in Requests :
         /\ req[s].pc = "done" /\ req[s].status = 400
         /\ req[s].detail = "User already exists"
    /\ Cardinality(DOMAIN users) = 2

\* two concurrent registrations of one new email have both been stored
C21_RaceReached ==
    \E u, v \in DOMAIN users : u # v /\ users[u].email = users[v].email

(* ---- unauthorized requests (C22) ---- *)
AuthOps == {"create_review", "recommendations", "loyalty_status",
            "user_orders", "create_product"}

\* an invalid token, a token without user id, a token of no stored user
BadToken(tok) ==
    \/ ~tok.valid
    \/ tok.user_id = None
    \/ tok.user_id \notin DOMAIN users

StoreUnchanged ==
    /\ products' = products
    /\ users' = users
    /\ orders' = orders
    /\ reviews' = reviews

\* C22: an operation that requires an authenticated user (settlement, list
\* orders, loyalty status, recommendations, create review, create product)
\* asked with an invalid token, a token without user id or a token whose
\* user does not exist is answered 401 and changes no stored state.
C22_Unauthorized ==
    [][/\ (out' # out /\ out'.op \in AuthOps /\ BadToken(out'.token)) =>
            /\ out'.status = 401
            /\ StoreUnchanged
       /\ \A s \in Requests :
            (req[s].pc = "auth" /\ req'[s].pc # "auth" /\ BadToken(req[s].token)) =>
              /\ req'[s].pc = "done"
              /\ req'[s].status = 401
              /\ req'[s].writes = <<>>
              /\ StoreUnchanged]_vars

\* witness of C22: the loyalty status has been asked with an invalid token
\* that names a stored user, after a settlement of that user
C22_Witness ==
    /\ out.op = "loyalty_status" /\ out.status = 401
    /\ ~out.token.valid /\ out.token.user_id \in DOMAIN users
    /\ Len(orders) > 0

(* ---- termination (C23) ---- *)
\* the request has ended as an order result or as one failure kind
OneOutcome(r) ==
    /\ r.pc = "done"
    /\ \/ r.status = 200 /\ r.detail = "Order created successfully"
       \/ r.status = 404 /\ r.detail = "ProductNotFound"
       \/ r.status = 400 /\ r.detail = "InsufficientStock"
       \/ r.status = 401 /\ r.detail \in {"Invalid authentication credentials",
                                          "User not found"}

\* C23: every settlement request that has arrived eventually ends, with an
\* order result or with one specific failure kind, also while another
\* settlement of the same user and products is running.
C23_EverySettlementEnds ==
    \A s \in Requests : (req[s].pc # "idle") ~> OneOutcome(req[s])

\* witness of C23: two settlements of the same user that raced for the
\* last unit of p1 have both ended
C23_Witness ==
    /\ RaceCase
    /\ \A s \in Requests : OneOutcome(req[s])
    /\ \E s \in Requests : req[s].status = 200

(* ---- determinism (C24) ---- *)
\* the pricing of r has been computed
Priced(r) ==
    \/ r.pc \in {"insert_order", "update_user", "update_stock"}
    \/ r.pc = "done" /\ r.status = 200

\* the tier of r's new total_spent has been computed
Classified(r) ==
    \/ r.pc \in {"update_user", "update_stock"}
    \/ r.pc = "done" /\ r.status = 200

\* the same cart, the same product names and prices read, the same points
\* of the user and the same points requested
SamePricingInputs(a, b) ==
    /\ a.loyalty_points_to_use = b.loyalty_points_to_use
    /\ a.current_user.loyalty_points = b.current_user.loyalty_points
    /\ a.items = b.items
    /\ [k \in 1..Len(a.order_items) |->
          <<a.order_items[k].product_id, a.order_items[k].price>>]
         = [k \in 1..Len(b.order_items) |->
              <<b.order_items[k].product_id, b.order_items[k].price>>]

Charged == out' # out /\ out'.op = "simulate_payment"

\* the payment simulation answered in this step succeeded, for order k
ChargeSucceeded(k) ==
    /\ Charged
    /\ out'.status = 200
    /\ out'.body = <<k, "success">>

\* C25: every order is created pending and placed; the statuses of a
\* stored order change only in a successful payment simulation for it,
\* which sets completed and confirmed together; a failed charge and a
\* charge for an unknown order change nothing; so an order is completed
\* exactly when it is confirmed, and a completed order stays completed.
C25_StatusLifecycle ==
    [][/\ \A k \in (Len(orders) + 1)..Len(orders') :
            /\ orders'[k].payment_status = "pending"
            /\ orders'[k].order_status = "placed"
       /\ \A k \in 1..Len(orders) :
            /\ (\/ orders'[k].payment_status # orders[k].payment_status
                \/ orders'[k].order_status # orders[k].order_status) =>
                 /\ ChargeSucceeded(k)
                 /\ orders'[k].payment_status = "completed"
                 /\ orders'[k].order_status = "confirmed"
            /\ ChargeSucceeded(k) =>
                 /\ orders'[k].payment_status = "completed"
                 /\ orders'[k].order_status = "confirmed"
            /\ orders[k].payment_status = "completed" =>
                 orders'[k].payment_status = "completed"
       /\ (Charged /\ ~\E k \in 1..Len(orders) : ChargeSucceeded(k)) =>
            /\ orders' = orders
            /\ products' = products
            /\ users' = users
       /\ \A k \in 1..Len(orders') :
            /\ orders'[k].payment_status \in {"pending", "completed"}
            /\ orders'[k].order_status \in {"placed", "confirmed"}
            /\ orders'[k].payment_status = "completed"
                 <=> orders'[k].order_status = "confirmed"]_vars

\* witness of C25: the first order has been paid, a later one is still
\* pending, and a charge has just failed
C25_Witness ==
    /\ Len(orders) = 2
    /\ orders[1].payment_status = "completed"
    /\ orders[1].order_status = "confirmed"
    /\ orders[2].payment_status = "pending"
    /\ orders[2].order_status = "placed"
    /\ out.op = "simulate_payment"
    /\ out.body = <<1, "failed">>

(* ---- stock accounting (C26) ---- *)
RECURSIVE LineQuantity(_, _)
\* the quantity of product p over the lines of one order
LineQuantity(items, p) ==
    IF items = <<>> THEN 0
    ELSE (IF Head(items).product_id = p THEN Head(items).quantity ELSE 0)
           + LineQuantity(Tail(items), p)

RECURSIVE OrderedQuantity(_, _)
\* the quantity of product p over all recorded orders
OrderedQuantity(os, p) ==
    IF os = <<>> THEN 0
    ELSE LineQuantity(Head(os).items, p) + OrderedQuantity(Tail(os), p)

\* C26: whenever no settlement is in progress, for every product the
\* initial stock minus the current stock is the sum of the quantities of
\* that product over all line items of all recorded orders, whatever the
\* interleaving of the settlements.
C26_StockAccounting ==
    AllFinished =>
      \A p \in DOMAIN products :
        stock0[p] - products[p].stock_quantity = OrderedQuantity(orders, p)

\* witness of C26: two interleaved settlements have both taken the last
\* unit of p1, and both decrements are in the stock
C26_Witness ==
    /\ RaceCase
    /\ \A s \in Requests : Succeeded(s)
    /\ OrderedQuantity(orders, "p1") = 2
    /\ products["p1"].stock_quantity = stock0["p1"] - 2

====
